---- MODULE Spec2Model ----
(***************************************************************************)
(* Ricart-Agrawala mutual exclusion over Lamport clocks, as implemented by *)
(* printing_client.py (PrintingClient, MutualExclusionServiceImpl), the    *)
(* printer of printer_server.py and the clock of lamport_clock.py.         *)
(*                                                                         *)
(* One step of the model is one lock-protected block (or one RPC event) of *)
(* one thread: the application thread of a peer (request_to_print), the    *)
(* RequestAccess handler threads of a peer's gRPC server, and the          *)
(* send_request threads that wait for the answers.                         *)
(***************************************************************************)
EXTENDS Integers, Sequences, FiniteSets, Bags, TLC

\* The configured peers: client ids of the PrintingClient instances.
Peers == {1, 2, 3}

\* The peers whose application prints under the "free" workload; the application
\* of the other peers stays idle and they only serve RequestAccess and ReleaseAccess
\* (as client B of test_scenario_1_basic_no_concurrency).
Requesters == {1, 2}

\* Bound: total number of request_critical_section calls plus RPC failures
\* (timeouts, transport errors) of a "free" run.
MaxEvents == 3

\* Bounds of the clock test: threads, and tick() calls per thread.
TickThreads == 3
TicksPerThread == 2

\* The clocks of TestCausalOrdering.test_message_ordering: clock1 and clock2.
Clocks == {1, 2}

\* Bounds of the clock calls: calls made outside the message chain, and the greatest
\* received timestamp passed to update().
MaxCalls == 3
MaxReceived == 10

\* Bound: the greatest timestamp of a compared request pair.
MaxTs == 2

\* Bound: the greatest number of deferred replies one release() finds in the queue.
MaxDrained == 2

VARIABLES
    clock,                 \* clock[p]: LamportClock._time of peer p
    state,                 \* state[p]: PrintingClient.state
    my_request_timestamp,  \* my_request_timestamp[p]
    request_number,        \* request_number[p]
    pending_replies,       \* pending_replies[p]
    reply_event,           \* reply_event[p]: is the threading.Event set
    deferred_replies,      \* deferred_replies[p]: sequence of <<client_id, event>>
    pc,                    \* pc[p]: position of p's application thread
    rpcs,                  \* RequestAccess calls: message, handler and caller thread
    job,                   \* job[p]: p's SendToPrinter call
    printed,               \* the printer's record of jobs, in order (client ids)
    release_ts,            \* release_ts[p]: local of release_critical_section
    notify,                \* notify[p]: peers release_critical_section has still to notify
    nfail,                 \* number of RPC failures so far
    responses,             \* history: responses[p][q], AccessResponses p got from q this round
    failures,              \* history: failures[p][q], failed RequestAccess calls to q this round
    errs,                  \* history: errs[p], errors p logged since its last acquire
    attempted,             \* history: attempted[p], peers p called ReleaseAccess on
    decided,               \* history: decided[p], greatest timestamp of a request p's handlers decided on
    workload,              \* which application drives the peers (never changes)
    tk_time,               \* clock test: LamportClock._time
    tk_lock,               \* clock test: holder of LamportClock._lock, 0 when free
    tk_pc,                 \* clock test: position of each thread inside tick()
    tk_tmp,                \* clock test: value loaded by self._time += 1
    tk_left,               \* clock test: tick() calls each thread has still to make
    results,               \* clock test: bag of the values tick() returned
    lc_time,               \* clock calls: lc_time[c], LamportClock._time of clock c
    lc_seen,               \* clock calls: history, greatest value returned or read from c
    lc_last,               \* clock calls: history, the last call and what it returned
    lc_calls,              \* clock calls: number of calls made outside the message chain
    chain,                 \* clock calls: position and timestamps of the message chain
    cmp,                   \* priority: the last comparison of request pairs
    lk_prog,               \* locks: lk_prog[t], the lock and blocking steps thread t runs
    lk_pc,                 \* locks: lk_pc[t], number of steps of lk_prog[t] that t has done
    lk_owner,              \* locks: lk_owner[l], the thread that holds lock l, or "none"
    lk_last                \* locks: history, the last acquisition and the locks held then

protoVars == <<clock, state, my_request_timestamp, request_number, pending_replies,
               reply_event, deferred_replies, pc, rpcs, job, printed, release_ts,
               notify, nfail, responses, failures, errs, attempted, decided>>

tickVars == <<tk_time, tk_lock, tk_pc, tk_tmp, tk_left, results>>

unitVars == <<lc_time, lc_seen, lc_last, lc_calls, chain, cmp>>

lockVars == <<lk_prog, lk_pc, lk_owner, lk_last>>

vars == <<protoVars, workload, decided, tickVars, unitVars, lockVars>>

Threads == 1..TickThreads

\* The clients that are configured and started: A = 1 and B = 2 in
\* test_scenario_1_basic_no_concurrency, client 1 alone (no --clients argument) in
\* "solo", all three otherwise.
Clients ==
    IF workload = "scenario1" THEN {1, 2}
    ELSE IF workload = "solo" THEN {1}
    ELSE Peers

\* The keys of p's peer_stubs.
Others(p) == Clients \ {p}

Max(a, b) == IF a >= b THEN a ELSE b

Min(S) == CHOOSE x \in S : \A y \in S : x <= y

Range(s) == {s[i] : i \in 1..Len(s)}

-----------------------------------------------------------------------------
(* LamportClock *)

\* A faulty variant of tick: the time is returned without the increment.
tick_no_increment(t) == t

\* tick(): self._time += 1; return self._time
tick(t) == t + 1

\* A faulty variant of update: the local time is ignored.
update_received_only(t, received) == received + 1

\* A faulty variant of update: the maximum is not incremented.
update_no_increment(t, received) == Max(t, received)

\* A faulty variant of update: the received timestamp is ignored.
update_local_only(t, received) == t + 1

\* update(received): self._time = max(self._time, received) + 1
update(t, received) == Max(t, received) + 1

-----------------------------------------------------------------------------
(* MutualExclusionServiceImpl.RequestAccess: the decision under state_lock *)

\* A faulty variant of has_priority: equal timestamps and equal ids give priority.
has_priority_or_equal(my_ts, my_id, other_ts, other_id) ==
    IF my_ts < other_ts THEN TRUE
    ELSE IF my_ts = other_ts THEN my_id <= other_id
    ELSE FALSE

\* TestMutexLogic._has_priority: (my_ts, my_id) comes before (other_ts, other_id)
has_priority(my_ts, my_id, other_ts, other_id) ==
    IF my_ts < other_ts THEN TRUE
    ELSE IF my_ts = other_ts THEN my_id < other_id
    ELSE FALSE

\* A faulty variant of should_defer: a peer that is HELD answers at once.
should_defer_not_when_held(current_state, my_ts, my_id, req_timestamp, client_id) ==
    /\ current_state = "WANTED"
    /\ \/ my_ts < req_timestamp
       \/ (my_ts = req_timestamp /\ my_id < client_id)

\* A faulty variant of should_defer: equal timestamps are decided for the larger id.
should_defer_larger_id(current_state, my_ts, my_id, req_timestamp, client_id) ==
    \/ current_state = "HELD"
    \/ /\ current_state = "WANTED"
       /\ \/ my_ts < req_timestamp
          \/ (my_ts = req_timestamp /\ my_id > client_id)

\* A faulty variant of should_defer: equal timestamps are never deferred.
should_defer_ts_only(current_state, my_ts, my_id, req_timestamp, client_id) ==
    \/ current_state = "HELD"
    \/ /\ current_state = "WANTED"
       /\ my_ts < req_timestamp

should_defer(current_state, my_ts, my_id, req_timestamp, client_id) ==
    \/ current_state = "HELD"
    \/ /\ current_state = "WANTED"
       /\ \/ my_ts < req_timestamp
          \/ (my_ts = req_timestamp /\ my_id < client_id)

-----------------------------------------------------------------------------

NoJob == [st |-> "none", ts |-> 0]

InitProto ==
    /\ clock = [p \in Peers |-> 0]
    /\ state = [p \in Peers |-> "RELEASED"]
    /\ my_request_timestamp = [p \in Peers |-> 0]
    /\ request_number = [p \in Peers |-> 0]
    /\ pending_replies = [p \in Peers |-> 0]
    /\ reply_event = [p \in Peers |-> FALSE]
    /\ deferred_replies = [p \in Peers |-> <<>>]
    /\ pc = [p \in Peers |-> "idle"]
    /\ rpcs = {}
    /\ job = [p \in Peers |-> NoJob]
    /\ printed = <<>>
    /\ release_ts = [p \in Peers |-> 0]
    /\ notify = [p \in Peers |-> {}]
    /\ nfail = 0
    /\ responses = [p \in Peers |-> [q \in Peers |-> 0]]
    /\ failures = [p \in Peers |-> [q \in Peers |-> 0]]
    /\ errs = [p \in Peers |-> {}]
    /\ attempted = [p \in Peers |-> {}]
    /\ decided = [p \in Peers |-> 0]

InitTick ==
    /\ tk_time = 0
    /\ tk_lock = 0
    /\ tk_pc = [t \in Threads |-> "call"]
    /\ tk_tmp = [t \in Threads |-> 0]
    /\ tk_left = [t \in Threads |-> TicksPerThread]
    /\ results = EmptyBag

\* LamportClock.__init__ for each clock; no call made yet.
InitClock ==
    /\ lc_time = [c \in Clocks |-> 0]
    /\ lc_seen = [c \in Clocks |-> -1]
    /\ lc_last = [clock |-> 0, op |-> "none", arg |-> 0, before |-> 0, seen |-> 0, ret |-> 0]
    /\ lc_calls = 0
    /\ chain = [pc |-> "start", ts1 |-> 0, ts2 |-> 0, ts3 |-> 0]

\* No pairs compared yet.
InitCompare == cmp = [pairs |-> <<>>, code |-> {}, test |-> {}]

\* The threads of one PrintingClient: the application thread (request_to_print), a
\* send_request thread per peer, a RequestAccess and a ReleaseAccess handler thread.
LockThreads == {"app", "send1", "send2", "request", "release"}

\* clock is LamportClock._lock; state, deferred and reply are PrintingClient's
\* state_lock, deferred_lock and reply_lock.
Locks == {"clock", "state", "deferred", "reply"}

\* threading.Lock() for each: no thread runs yet and no lock is held.
InitLock ==
    /\ lk_prog = [t \in LockThreads |-> <<>>]
    /\ lk_pc = [t \in LockThreads |-> 0]
    /\ lk_owner = [l \in Locks |-> "none"]
    /\ lk_last = [thread |-> "none", lock |-> "none", held |-> {}]

InitUnit == InitClock /\ InitCompare /\ InitLock

\* "free":      every requester calls request_to_print whenever it is idle
\*              (run_automatic_requests), within MaxEvents.
\* "scenario1": test_scenario_1_basic_no_concurrency: of the clients A = 1 and B = 2,
\*              A calls request_to_print once and B never requests.
\* "scenario2": test_scenario_2_concurrency: C = 3 acquires first and holds the
\*              resource; A = 1 and B = 2 call request_to_print once while C holds it.
\* "solo":      one client started without peers calls request_to_print once.
Workloads == {"free", "scenario1", "scenario2", "solo"}

Init == InitProto /\ InitTick /\ InitUnit /\ workload \in Workloads

InitFree == InitProto /\ InitTick /\ InitUnit /\ workload = "free"

TotalRequests == LET S[Q \in SUBSET Peers] ==
                         IF Q = {} THEN 0
                         ELSE LET q == CHOOSE x \in Q : TRUE
                              IN request_number[q] + S[Q \ {q}]
                 IN S[Peers]

\* Whether one more RPC may end by its deadline or a transport error.
MayFail == TotalRequests + nfail < MaxEvents

\* When the application of p calls request_critical_section.
MayRequest(p) ==
    \/ /\ workload = "free"
       /\ p \in Requesters
       /\ TotalRequests + nfail < MaxEvents
    \/ /\ workload \in {"scenario1", "solo"}
       /\ p = 1
       /\ request_number[p] = 0
    \/ /\ workload = "scenario2"
       /\ request_number[p] = 0
       /\ (p # 3 => state[3] = "HELD")

-----------------------------------------------------------------------------
(* PrintingClient.request_critical_section *)

\* with self.state_lock: state = WANTED; my_request_timestamp = clock.tick();
\* request_number += 1
AcquireBegin(p) ==
    /\ pc[p] = "idle"
    /\ MayRequest(p)
    /\ state' = [state EXCEPT ![p] = "WANTED"]
    /\ clock' = [clock EXCEPT ![p] = tick(clock[p])]
    /\ my_request_timestamp' = [my_request_timestamp EXCEPT ![p] = tick(clock[p])]
    /\ request_number' = [request_number EXCEPT ![p] = @ + 1]
    /\ pc' = [pc EXCEPT ![p] = "arm"]
    /\ responses' = [responses EXCEPT ![p] = [q \in Peers |-> 0]]
    /\ failures' = [failures EXCEPT ![p] = [q \in Peers |-> 0]]
    /\ errs' = [errs EXCEPT ![p] = {}]
    /\ attempted' = [attempted EXCEPT ![p] = {}]
    /\ UNCHANGED <<pending_replies, reply_event, deferred_replies, rpcs, job, printed,
                   release_ts, notify, nfail, workload, decided, tickVars, unitVars, lockVars>>

\* A faulty variant of AcquireArm: the counter is set one too low.
AcquireArmOneLess(p) ==
    /\ pc[p] = "arm"
    /\ pending_replies' = [pending_replies EXCEPT ![p] = Cardinality(Others(p)) - 1]
    /\ reply_event' = [reply_event EXCEPT ![p] = FALSE]
    /\ pc' = [pc EXCEPT ![p] = "send"]
    /\ UNCHANGED <<clock, state, my_request_timestamp, request_number, deferred_replies,
                   rpcs, job, printed, release_ts, notify, nfail, responses, failures,
                   errs, attempted, workload, decided, tickVars, unitVars, lockVars>>

\* with self.reply_lock: pending_replies = len(peer_stubs); reply_event.clear()
AcquireArm(p) ==
    /\ pc[p] = "arm"
    /\ pending_replies' = [pending_replies EXCEPT ![p] = Cardinality(Others(p))]
    /\ reply_event' = [reply_event EXCEPT ![p] = FALSE]
    /\ pc' = [pc EXCEPT ![p] = "send"]
    /\ UNCHANGED <<clock, state, my_request_timestamp, request_number, deferred_replies,
                   rpcs, job, printed, release_ts, notify, nfail, responses, failures,
                   errs, attempted, workload, decided, tickVars, unitVars, lockVars>>

\* The AccessRequest of p's current round to q, with its handler and caller thread.
\*   st:   "sent" in flight, "recv" clock updated, "defer" decided to defer,
\*         "waiting" enqueued and blocked on the event, "replied" response in flight
\*   val:  new_time of the handler, then the response's lamport_timestamp
\*   live: the send_request thread is still blocked in the call
\*   sig:  number of set() calls on the handler's reply_event
\*   dn:   request_number of the handler's peer when it decided to defer
\*   pos:  position in deferred_replies at which the handler appended its event
\*   fo:   how many set() calls the drain had made when it set the handler's event
NewRequest(p, q) ==
    [from |-> p, to |-> q, n |-> request_number[p], ts |-> my_request_timestamp[p],
     st |-> "sent", val |-> 0, live |-> TRUE, sig |-> 0, dn |-> 0, pos |-> 0, fo |-> 0]

\* for peer_id, stub in self.peer_stubs.items(): threading.Thread(send_request).start()
AcquireSend(p) ==
    /\ pc[p] = "send"
    /\ rpcs' = rpcs \cup {NewRequest(p, q) : q \in Others(p)}
    /\ pc' = [pc EXCEPT ![p] = "wait"]
    /\ UNCHANGED <<clock, state, my_request_timestamp, request_number, pending_replies,
                   reply_event, deferred_replies, job, printed, release_ts, notify, nfail,
                   responses, failures, errs, attempted, workload, decided, tickVars, unitVars, lockVars>>

\* A faulty variant of AcquireEnter: the reply event is not waited for.
AcquireEnterNoWait(p) ==
    /\ pc[p] = "wait"
    /\ state' = [state EXCEPT ![p] = "HELD"]
    /\ pc' = [pc EXCEPT ![p] = "held"]
    /\ UNCHANGED <<clock, my_request_timestamp, request_number, pending_replies,
                   reply_event, deferred_replies, rpcs, job, printed, release_ts, notify,
                   nfail, responses, failures, errs, attempted, workload, decided, tickVars, unitVars, lockVars>>

\* self.reply_event.wait(); with self.state_lock: state = HELD
AcquireEnter(p) ==
    /\ pc[p] = "wait"
    /\ reply_event[p]
    /\ state' = [state EXCEPT ![p] = "HELD"]
    /\ pc' = [pc EXCEPT ![p] = "held"]
    /\ UNCHANGED <<clock, my_request_timestamp, request_number, pending_replies,
                   reply_event, deferred_replies, rpcs, job, printed, release_ts, notify,
                   nfail, responses, failures, errs, attempted, workload, decided, tickVars, unitVars, lockVars>>

-----------------------------------------------------------------------------
(* MutualExclusionServiceImpl.RequestAccess, the handler of r.to for r *)

Replace(r, new) == (rpcs \ {r}) \cup {new}

\* The response leaves the handler; nobody reads the response of an abandoned call.
Respond(r, new) == IF r.live THEN Replace(r, new) ELSE rpcs \ {r}

\* A faulty variant of RequestAccessUpdate: the handler reads the clock and does not
\* update it.
RequestAccessUpdateSkipped(r) ==
    /\ r.st = "sent"
    /\ rpcs' = Replace(r, [r EXCEPT !.st = "recv", !.val = clock[r.to]])
    /\ UNCHANGED <<clock, state, my_request_timestamp, request_number, pending_replies,
                   reply_event, deferred_replies, pc, job, printed, release_ts, notify,
                   nfail, responses, failures, errs, attempted, workload, decided, tickVars, unitVars, lockVars>>

\* new_time = self.client.clock.update(request.lamport_timestamp)
RequestAccessUpdate(r) ==
    /\ r.st = "sent"
    /\ clock' = [clock EXCEPT ![r.to] = update(clock[r.to], r.ts)]
    /\ rpcs' = Replace(r, [r EXCEPT !.st = "recv", !.val = update(clock[r.to], r.ts)])
    /\ UNCHANGED <<state, my_request_timestamp, request_number, pending_replies,
                   reply_event, deferred_replies, pc, job, printed, release_ts, notify,
                   nfail, responses, failures, errs, attempted, workload, decided, tickVars, unitVars, lockVars>>

\* with self.client.state_lock: decide should_defer; the immediate reply carries new_time
RequestAccessDecide(r) ==
    /\ r.st = "recv"
    /\ rpcs' = IF should_defer(state[r.to], my_request_timestamp[r.to], r.to, r.ts, r.from)
               THEN Replace(r, [r EXCEPT !.st = "defer", !.dn = request_number[r.to]])
               ELSE Respond(r, [r EXCEPT !.st = "replied"])
    /\ decided' = [decided EXCEPT ![r.to] = Max(@, r.ts)]
    /\ UNCHANGED <<clock, state, my_request_timestamp, request_number, pending_replies,
                   reply_event, deferred_replies, pc, job, printed, release_ts, notify,
                   nfail, responses, failures, errs, attempted, workload, tickVars, unitVars, lockVars>>

\* reply_event = threading.Event();
\* with self.client.deferred_lock: deferred_replies.append((client_id, reply_event))
RequestAccessEnqueue(r) ==
    /\ r.st = "defer"
    /\ deferred_replies' = [deferred_replies EXCEPT ![r.to] = Append(@, <<r.from, r.n>>)]
    /\ rpcs' = Replace(r, [r EXCEPT !.st = "waiting",
                                    !.pos = Len(deferred_replies[r.to]) + 1])
    /\ UNCHANGED <<clock, state, my_request_timestamp, request_number, pending_replies,
                   reply_event, pc, job, printed, release_ts, notify, nfail, responses,
                   failures, errs, attempted, workload, decided, tickVars, unitVars, lockVars>>

\* A faulty variant of RequestAccessWake: the deferred reply carries new_time.
RequestAccessWakeStale(r) ==
    /\ r.st = "waiting"
    /\ r.sig > 0
    /\ rpcs' = Respond(r, [r EXCEPT !.st = "replied"])
    /\ UNCHANGED <<clock, state, my_request_timestamp, request_number, pending_replies,
                   reply_event, deferred_replies, pc, job, printed, release_ts, notify,
                   nfail, responses, failures, errs, attempted, workload, decided, tickVars, unitVars, lockVars>>

\* reply_event.wait() returns; AccessResponse(lamport_timestamp=self.client.clock.tick())
RequestAccessWake(r) ==
    /\ r.st = "waiting"
    /\ r.sig > 0
    /\ clock' = [clock EXCEPT ![r.to] = tick(clock[r.to])]
    /\ rpcs' = Respond(r, [r EXCEPT !.st = "replied", !.val = tick(clock[r.to])])
    /\ UNCHANGED <<state, my_request_timestamp, request_number, pending_replies,
                   reply_event, deferred_replies, pc, job, printed, release_ts, notify,
                   nfail, responses, failures, errs, attempted, workload, decided, tickVars, unitVars, lockVars>>

-----------------------------------------------------------------------------
(* send_request, the thread of r.from that waits for the answer to r *)

\* A faulty variant of CountReply: the event is set one reply early.
CountReplySetsEarly(p) ==
    /\ pending_replies' = [pending_replies EXCEPT ![p] = @ - 1]
    /\ reply_event' = [reply_event EXCEPT ![p] = IF pending_replies[p] - 1 <= 1 THEN TRUE ELSE @]

\* with self.reply_lock: pending_replies -= 1; if pending_replies == 0: reply_event.set()
CountReply(p) ==
    /\ pending_replies' = [pending_replies EXCEPT ![p] = @ - 1]
    /\ reply_event' = [reply_event EXCEPT ![p] = IF pending_replies[p] - 1 = 0 THEN TRUE ELSE @]

\* response = s.RequestAccess(req, timeout=5.0); self.clock.update(response.lamport_timestamp)
SendRequestUpdate(r) ==
    /\ r.st = "replied"
    /\ r.live
    /\ clock' = [clock EXCEPT ![r.from] = update(clock[r.from], r.val)]
    /\ rpcs' = Replace(r, [r EXCEPT !.st = "got"])
    /\ responses' = [responses EXCEPT ![r.from][r.to] = @ + 1]
    /\ UNCHANGED <<state, my_request_timestamp, request_number, pending_replies,
                   reply_event, deferred_replies, pc, job, printed, release_ts, notify,
                   nfail, failures, errs, attempted, workload, decided, tickVars, unitVars, lockVars>>

\* the decrement after a response
SendRequestCount(r) ==
    /\ r.st = "got"
    /\ CountReply(r.from)
    /\ rpcs' = rpcs \ {r}
    /\ UNCHANGED <<clock, state, my_request_timestamp, request_number, deferred_replies,
                   pc, job, printed, release_ts, notify, nfail, responses, failures, errs,
                   attempted, workload, decided, tickVars, unitVars, lockVars>>

\* A faulty variant of SendRequestFail: the failure is logged and not counted as a reply.
SendRequestFailNotCounted(r, delivered) ==
    /\ r.live
    /\ r.st \in {"sent", "recv", "defer", "waiting", "replied"}
    /\ MayFail
    /\ nfail' = nfail + 1
    /\ rpcs' = IF r.st = "replied" \/ (r.st = "sent" /\ ~delivered)
               THEN rpcs \ {r}
               ELSE Replace(r, [r EXCEPT !.live = FALSE])
    /\ (r.st # "sent" => delivered)
    /\ failures' = [failures EXCEPT ![r.from][r.to] = @ + 1]
    /\ UNCHANGED <<clock, state, my_request_timestamp, request_number, pending_replies,
                   reply_event, deferred_replies, pc, job, printed, release_ts, notify,
                   responses, errs, attempted, workload, decided, tickVars, unitVars, lockVars>>

\* A faulty variant of SendRequestFail: the failure is counted and the thread goes
\* on waiting for the response.
SendRequestFailStillLive(r, delivered) ==
    /\ r.live
    /\ r.st \in {"sent", "recv", "defer", "waiting", "replied"}
    /\ MayFail
    /\ nfail' = nfail + 1
    /\ CountReply(r.from)
    /\ rpcs' = IF r.st = "sent" /\ ~delivered THEN rpcs \ {r} ELSE rpcs
    /\ (r.st # "sent" => delivered)
    /\ failures' = [failures EXCEPT ![r.from][r.to] = @ + 1]
    /\ UNCHANGED <<clock, state, my_request_timestamp, request_number, deferred_replies,
                   pc, job, printed, release_ts, notify, responses, errs, attempted,
                   workload, decided, tickVars, unitVars, lockVars>>

\* except grpc.RpcError: the call ended by its deadline or a transport error and is
\* counted as a reply. A request not yet handled is lost (delivered = FALSE) or is
\* still handled later; a running handler goes on, its response is dropped.
SendRequestFail(r, delivered) ==
    /\ r.live
    /\ r.st \in {"sent", "recv", "defer", "waiting", "replied"}
    /\ MayFail
    /\ nfail' = nfail + 1
    /\ CountReply(r.from)
    /\ rpcs' = IF r.st = "replied" \/ (r.st = "sent" /\ ~delivered)
               THEN rpcs \ {r}
               ELSE Replace(r, [r EXCEPT !.live = FALSE])
    /\ (r.st # "sent" => delivered)
    /\ failures' = [failures EXCEPT ![r.from][r.to] = @ + 1]
    /\ UNCHANGED <<clock, state, my_request_timestamp, request_number, deferred_replies,
                   pc, job, printed, release_ts, notify, responses, errs, attempted,
                   workload, decided, tickVars, unitVars, lockVars>>

-----------------------------------------------------------------------------
(* PrintingClient.print_document and PrinterServiceImpl.SendToPrinter *)

\* A faulty variant of PrintSend: the call is issued and not waited for.
PrintSendNoWait(p) ==
    /\ pc[p] = "held"
    /\ clock' = [clock EXCEPT ![p] = tick(clock[p])]
    /\ job' = [job EXCEPT ![p] = [st |-> "sent", ts |-> tick(clock[p])]]
    /\ pc' = [pc EXCEPT ![p] = "printed"]
    /\ UNCHANGED <<state, my_request_timestamp, request_number, pending_replies,
                   reply_event, deferred_replies, rpcs, printed, release_ts, notify, nfail,
                   responses, failures, errs, attempted, workload, decided, tickVars, unitVars, lockVars>>

\* print_ts = self.clock.tick(); self.printer_stub.SendToPrinter(request, timeout=10.0)
PrintSend(p) ==
    /\ pc[p] = "held"
    /\ clock' = [clock EXCEPT ![p] = tick(clock[p])]
    /\ job' = [job EXCEPT ![p] = [st |-> "sent", ts |-> tick(clock[p])]]
    /\ pc' = [pc EXCEPT ![p] = "printing"]
    /\ UNCHANGED <<state, my_request_timestamp, request_number, pending_replies,
                   reply_event, deferred_replies, rpcs, printed, release_ts, notify, nfail,
                   responses, failures, errs, attempted, workload, decided, tickVars, unitVars, lockVars>>

\* the printer: print_count += 1, print the job, answer with the request's timestamp
SendToPrinter(p) ==
    /\ job[p].st = "sent"
    /\ printed' = Append(printed, p)
    /\ job' = [job EXCEPT ![p].st = "answered"]
    /\ UNCHANGED <<clock, state, my_request_timestamp, request_number, pending_replies,
                   reply_event, deferred_replies, pc, rpcs, release_ts, notify, nfail,
                   responses, failures, errs, attempted, workload, decided, tickVars, unitVars, lockVars>>

\* self.clock.update(response.lamport_timestamp)
PrintReturn(p) ==
    /\ pc[p] = "printing"
    /\ job[p].st = "answered"
    /\ clock' = [clock EXCEPT ![p] = update(clock[p], job[p].ts)]
    /\ job' = [job EXCEPT ![p] = NoJob]
    /\ pc' = [pc EXCEPT ![p] = "printed"]
    /\ UNCHANGED <<state, my_request_timestamp, request_number, pending_replies,
                   reply_event, deferred_replies, rpcs, printed, release_ts, notify, nfail,
                   responses, failures, errs, attempted, workload, decided, tickVars, unitVars, lockVars>>

\* A faulty variant of PrintFail: a failed print puts the peer back to WANTED.
PrintFailReleases(p) ==
    /\ pc[p] = "printing"
    /\ MayFail
    /\ nfail' = nfail + 1
    /\ job' = [job EXCEPT ![p] = NoJob]
    /\ errs' = [errs EXCEPT ![p] = @ \cup {"print"}]
    /\ state' = [state EXCEPT ![p] = "WANTED"]
    /\ pc' = [pc EXCEPT ![p] = "printed"]
    /\ UNCHANGED <<clock, my_request_timestamp, request_number, pending_replies,
                   reply_event, deferred_replies, rpcs, printed, release_ts, notify,
                   responses, failures, attempted, workload, decided, tickVars, unitVars, lockVars>>

\* except grpc.RpcError: log only; the job was printed or not
PrintFail(p) ==
    /\ pc[p] = "printing"
    /\ MayFail
    /\ nfail' = nfail + 1
    /\ job' = [job EXCEPT ![p] = NoJob]
    /\ errs' = [errs EXCEPT ![p] = @ \cup {"print"}]
    /\ pc' = [pc EXCEPT ![p] = "printed"]
    /\ UNCHANGED <<clock, state, my_request_timestamp, request_number, pending_replies,
                   reply_event, deferred_replies, rpcs, printed, release_ts, notify,
                   responses, failures, attempted, workload, decided, tickVars, unitVars, lockVars>>

-----------------------------------------------------------------------------
(* PrintingClient.release_critical_section and ReleaseAccess *)

\* req_num = self.request_number; with self.state_lock: state = RELEASED
ReleaseState(p) ==
    /\ pc[p] = "printed"
    /\ state' = [state EXCEPT ![p] = "RELEASED"]
    /\ pc' = [pc EXCEPT ![p] = "rel_tick"]
    /\ UNCHANGED <<clock, my_request_timestamp, request_number, pending_replies,
                   reply_event, deferred_replies, rpcs, job, printed, release_ts, notify,
                   nfail, responses, failures, errs, attempted, workload, decided, tickVars, unitVars, lockVars>>

\* release_ts = self.clock.tick()
ReleaseTick(p) ==
    /\ pc[p] = "rel_tick"
    /\ clock' = [clock EXCEPT ![p] = tick(clock[p])]
    /\ release_ts' = [release_ts EXCEPT ![p] = tick(clock[p])]
    /\ pc' = [pc EXCEPT ![p] = "rel_drain"]
    /\ UNCHANGED <<state, my_request_timestamp, request_number, pending_replies,
                   reply_event, deferred_replies, rpcs, job, printed, notify, nfail,
                   responses, failures, errs, attempted, workload, decided, tickVars, unitVars, lockVars>>

\* Number of entries of queue dq that hold the event of handler r.
Entries(dq, r) == Cardinality({i \in 1..Len(dq) : dq[i] = <<r.from, r.n>>})

\* reply_event.set() for entry e of p's queue, the i-th call of the drain
SetEvent(R, e, i, p) ==
    {IF r.to = p /\ <<r.from, r.n>> = e THEN [r EXCEPT !.sig = @ + 1, !.fo = i] ELSE r :
        r \in R}

\* The loop over the list dq from its i-th entry on.
RECURSIVE FireLoop(_, _, _, _)
FireLoop(R, dq, i, p) ==
    IF i > Len(dq) THEN R ELSE FireLoop(SetEvent(R, dq[i], i, p), dq, i + 1, p)

Reversed(dq) == [i \in 1..Len(dq) |-> dq[Len(dq) + 1 - i]]

\* A faulty variant of Fire: the queue is drained from its end.
FireLastFirst(dq, p) == FireLoop(rpcs, Reversed(dq), 1, p)

\* for peer_id, reply_event in self.deferred_replies: reply_event.set()
Fire(dq, p) == FireLoop(rpcs, dq, 1, p)

\* with self.deferred_lock: fire every queued event; self.deferred_replies.clear()
ReleaseDrain(p) ==
    /\ pc[p] = "rel_drain"
    /\ rpcs' = Fire(deferred_replies[p], p)
    /\ deferred_replies' = [deferred_replies EXCEPT ![p] = <<>>]
    /\ notify' = [notify EXCEPT ![p] = Others(p)]
    /\ pc' = [pc EXCEPT ![p] = IF Others(p) = {} THEN "idle" ELSE "notify"]
    /\ UNCHANGED <<clock, state, my_request_timestamp, request_number, pending_replies,
                   reply_event, job, printed, release_ts, nfail, responses, failures, errs,
                   attempted, workload, decided, tickVars, unitVars, lockVars>>

\* The loop over self.peer_stubs.items() moves on to the next peer.
NextPeer(p, q) ==
    /\ q = Min(notify[p])
    /\ notify' = [notify EXCEPT ![p] = @ \ {q}]
    /\ attempted' = [attempted EXCEPT ![p] = @ \cup {q}]
    /\ pc' = [pc EXCEPT ![p] = IF notify[p] \ {q} = {} THEN "idle" ELSE "notify"]
    /\ release_ts' = [release_ts EXCEPT ![p] = IF notify[p] \ {q} = {} THEN 0 ELSE @]

\* A faulty variant of ReleaseAccess: the handler also counts the release as a reply
\* (the block that is commented out in the handler).
ReleaseAccessCountsReply(p, q) ==
    /\ pc[p] = "notify"
    /\ NextPeer(p, q)
    /\ clock' = [clock EXCEPT ![q] = update(clock[q], release_ts[p])]
    /\ IF pending_replies[q] > 0
       THEN CountReply(q)
       ELSE UNCHANGED <<pending_replies, reply_event>>
    /\ UNCHANGED <<state, my_request_timestamp, request_number, deferred_replies, rpcs,
                   job, printed, nfail, responses, failures, errs, workload, decided,
                   tickVars, unitVars, lockVars>>

\* stub.ReleaseAccess(release, timeout=5.0), and q's handler:
\* self.client.clock.update(request.lamport_timestamp)
ReleaseAccess(p, q) ==
    /\ pc[p] = "notify"
    /\ NextPeer(p, q)
    /\ clock' = [clock EXCEPT ![q] = update(clock[q], release_ts[p])]
    /\ UNCHANGED <<state, my_request_timestamp, request_number, pending_replies,
                   reply_event, deferred_replies, rpcs, job, printed, nfail, responses,
                   failures, errs, workload, decided, tickVars, unitVars, lockVars>>

\* A faulty variant of ReleaseFail: the error ends the loop over the peers.
ReleaseFailEndsLoop(p, q, handled) ==
    /\ pc[p] = "notify"
    /\ MayFail
    /\ nfail' = nfail + 1
    /\ q = Min(notify[p])
    /\ notify' = [notify EXCEPT ![p] = {}]
    /\ attempted' = [attempted EXCEPT ![p] = @ \cup {q}]
    /\ pc' = [pc EXCEPT ![p] = "idle"]
    /\ release_ts' = [release_ts EXCEPT ![p] = 0]
    /\ clock' = [clock EXCEPT ![q] = IF handled THEN update(clock[q], release_ts[p]) ELSE @]
    /\ errs' = [errs EXCEPT ![p] = @ \cup {"release"}]
    /\ UNCHANGED <<state, my_request_timestamp, request_number, pending_replies,
                   reply_event, deferred_replies, rpcs, job, printed, responses, failures,
                   workload, decided, tickVars, unitVars, lockVars>>

\* except grpc.RpcError: log only and go on; q handled the release or not
ReleaseFail(p, q, handled) ==
    /\ pc[p] = "notify"
    /\ MayFail
    /\ nfail' = nfail + 1
    /\ NextPeer(p, q)
    /\ clock' = [clock EXCEPT ![q] = IF handled THEN update(clock[q], release_ts[p]) ELSE @]
    /\ errs' = [errs EXCEPT ![p] = @ \cup {"release"}]
    /\ UNCHANGED <<state, my_request_timestamp, request_number, pending_replies,
                   reply_event, deferred_replies, rpcs, job, printed, responses, failures,
                   workload, decided, tickVars, unitVars, lockVars>>

-----------------------------------------------------------------------------

\* Steps of a run in which no RPC times out or fails.
NextReliable ==
    \/ \E p \in Peers : AcquireBegin(p)
    \/ \E p \in Peers : AcquireArm(p)
    \/ \E p \in Peers : AcquireSend(p)
    \/ \E p \in Peers : AcquireEnter(p)
    \/ \E r \in rpcs : RequestAccessUpdate(r)
    \/ \E r \in rpcs : RequestAccessDecide(r)
    \/ \E r \in rpcs : RequestAccessEnqueue(r)
    \/ \E r \in rpcs : RequestAccessWake(r)
    \/ \E r \in rpcs : SendRequestUpdate(r)
    \/ \E r \in rpcs : SendRequestCount(r)
    \/ \E p \in Peers : PrintSend(p)
    \/ \E p \in Peers : SendToPrinter(p)
    \/ \E p \in Peers : PrintReturn(p)
    \/ \E p \in Peers : ReleaseState(p)
    \/ \E p \in Peers : ReleaseTick(p)
    \/ \E p \in Peers : ReleaseDrain(p)
    \/ \E p \in Peers : \E q \in Others(p) : ReleaseAccess(p, q)

\* Any step: RPCs may also end by their deadline or a transport error.
Next ==
    \/ NextReliable
    \/ \E r \in rpcs : \E delivered \in BOOLEAN : SendRequestFail(r, delivered)
    \/ \E p \in Peers : PrintFail(p)
    \/ \E p \in Peers : \E q \in Others(p) : \E handled \in BOOLEAN : ReleaseFail(p, q, handled)

\* Runs of the "free" workload with RPC failures.
Spec == InitFree /\ [][Next]_vars

\* Runs of both workloads without RPC failures.
SpecReliable == Init /\ [][NextReliable]_vars

-----------------------------------------------------------------------------
(* LamportClock.tick under concurrent callers: TestLamportClock.test_thread_safety *)

\* A faulty variant of LockFree: tick() without the lock.
LockFreeNoLock(holder) == TRUE

\* with self._lock: the lock can be taken when nobody holds it
LockFree(holder) == holder = 0

\* t = clock.tick() is called: enter "with self._lock"
TickLock(t) ==
    /\ tk_pc[t] = "call"
    /\ tk_left[t] > 0
    /\ LockFree(tk_lock)
    /\ tk_lock' = t
    /\ tk_pc' = [tk_pc EXCEPT ![t] = "load"]
    /\ UNCHANGED <<tk_time, tk_tmp, tk_left, results, protoVars, workload, unitVars, lockVars>>

\* self._time += 1: the load
TickLoad(t) ==
    /\ tk_pc[t] = "load"
    /\ tk_tmp' = [tk_tmp EXCEPT ![t] = tk_time]
    /\ tk_pc' = [tk_pc EXCEPT ![t] = "store"]
    /\ UNCHANGED <<tk_time, tk_lock, tk_left, results, protoVars, workload, unitVars, lockVars>>

\* self._time += 1: the store
TickStore(t) ==
    /\ tk_pc[t] = "store"
    /\ tk_time' = tick(tk_tmp[t])
    /\ tk_pc' = [tk_pc EXCEPT ![t] = "ret"]
    /\ UNCHANGED <<tk_lock, tk_tmp, tk_left, results, protoVars, workload, unitVars, lockVars>>

\* return self._time, leaving the lock; results.append(t)
TickReturn(t) ==
    /\ tk_pc[t] = "ret"
    /\ results' = results (+) SetToBag({tk_time})
    /\ tk_lock' = 0
    /\ tk_tmp' = [tk_tmp EXCEPT ![t] = 0]
    /\ tk_left' = [tk_left EXCEPT ![t] = @ - 1]
    /\ tk_pc' = [tk_pc EXCEPT ![t] = "call"]
    /\ UNCHANGED <<tk_time, protoVars, workload, unitVars, lockVars>>

TickNext ==
    \/ \E t \in Threads : TickLock(t)
    \/ \E t \in Threads : TickLoad(t)
    \/ \E t \in Threads : TickStore(t)
    \/ \E t \in Threads : TickReturn(t)

\* TickThreads threads, each calling tick() TicksPerThread times on a fresh clock.
TickSpec == InitFree /\ [][TickNext]_vars

\* Every thread of the clock test has made all its calls.
TickDone == \A t \in Threads : tk_left[t] = 0

\* C10: under any interleaving of the threads, the values tick() returned so far are
\* exactly 1..n, each once (n the number of calls that returned), and once every
\* thread has made its calls n = TickThreads * TicksPerThread and the clock reads n.
ThreadSafeTick ==
    LET n == BagCardinality(results)
    IN  /\ results = SetToBag(1..n)
        /\ TickDone => (n = TickThreads * TicksPerThread /\ tk_time = n)

\* C10 witness: all the calls returned.
ThreadSafeTickWitness ==
    TickDone /\ BagCardinality(results) = TickThreads * TicksPerThread

-----------------------------------------------------------------------------
(* LamportClock called sequentially: TestLamportClock, TestCausalOrdering *)

\* get_time(): return self._time
get_time(t) == t

\* One call on clock c, atomic under self._lock: the clock reads new afterwards and
\* the call returns ret.
Call(c, op, arg, new, ret) ==
    /\ lc_time' = [lc_time EXCEPT ![c] = new]
    /\ lc_last' = [clock |-> c, op |-> op, arg |-> arg, before |-> lc_time[c],
                   seen |-> lc_seen[c], ret |-> ret]
    /\ lc_seen' = [lc_seen EXCEPT ![c] = Max(@, ret)]

CallTick(c) == Call(c, "tick", 0, tick(lc_time[c]), tick(lc_time[c]))

CallUpdate(c, r) == Call(c, "update", r, update(lc_time[c], r), update(lc_time[c], r))

CallGetTime(c) == Call(c, "get_time", 0, lc_time[c], get_time(lc_time[c]))

\* clock.tick() outside the message chain
ClockTick(c) ==
    /\ lc_calls < MaxCalls
    /\ CallTick(c)
    /\ lc_calls' = lc_calls + 1
    /\ UNCHANGED <<chain, cmp, protoVars, workload, tickVars, lockVars>>

\* clock.update(r) outside the message chain
ClockUpdate(c, r) ==
    /\ lc_calls < MaxCalls
    /\ CallUpdate(c, r)
    /\ lc_calls' = lc_calls + 1
    /\ UNCHANGED <<chain, cmp, protoVars, workload, tickVars, lockVars>>

\* clock.get_time()
ClockGetTime(c) ==
    /\ lc_calls < MaxCalls
    /\ CallGetTime(c)
    /\ lc_calls' = lc_calls + 1
    /\ UNCHANGED <<chain, cmp, protoVars, workload, tickVars, lockVars>>

\* test_message_ordering: ts1 = clock1.tick()
ChainSend1 ==
    /\ chain.pc = "start"
    /\ CallTick(1)
    /\ chain' = [chain EXCEPT !.pc = "sent1", !.ts1 = tick(lc_time[1])]
    /\ UNCHANGED <<lc_calls, cmp, protoVars, workload, tickVars, lockVars>>

\* test_message_ordering: clock2.update(ts1)
ChainReceive2 ==
    /\ chain.pc = "sent1"
    /\ CallUpdate(2, chain.ts1)
    /\ chain' = [chain EXCEPT !.pc = "recv2"]
    /\ UNCHANGED <<lc_calls, cmp, protoVars, workload, tickVars, lockVars>>

\* test_message_ordering: ts2 = clock2.tick()
ChainSend2 ==
    /\ chain.pc = "recv2"
    /\ CallTick(2)
    /\ chain' = [chain EXCEPT !.pc = "sent2", !.ts2 = tick(lc_time[2])]
    /\ UNCHANGED <<lc_calls, cmp, protoVars, workload, tickVars, lockVars>>

\* test_message_ordering: clock1.update(ts2)
ChainReceive1 ==
    /\ chain.pc = "sent2"
    /\ CallUpdate(1, chain.ts2)
    /\ chain' = [chain EXCEPT !.pc = "recv1"]
    /\ UNCHANGED <<lc_calls, cmp, protoVars, workload, tickVars, lockVars>>

\* test_message_ordering: ts3 = clock1.tick()
ChainSend3 ==
    /\ chain.pc = "recv1"
    /\ CallTick(1)
    /\ chain' = [chain EXCEPT !.pc = "done", !.ts3 = tick(lc_time[1])]
    /\ UNCHANGED <<lc_calls, cmp, protoVars, workload, tickVars, lockVars>>

ClockNext ==
    \/ \E c \in Clocks : ClockTick(c)
    \/ \E c \in Clocks : \E r \in 0..MaxReceived : ClockUpdate(c, r)
    \/ \E c \in Clocks : ClockGetTime(c)
    \/ ChainSend1
    \/ ChainReceive2
    \/ ChainSend2
    \/ ChainReceive1
    \/ ChainSend3

\* Two fresh clocks, any calls on them, and the message chain p1 -> p2 -> p1 started
\* at any point.
ClockSpec == InitFree /\ [][ClockNext]_vars

\* C11: update(r) at clock value t returns max(t, r) + 1 (a value above both t and r
\* that is the successor of one of them) and leaves the clock reading it; at 5,
\* update(2) and update(5) return 6; at 2, update(10) returns 11, and a tick() at 11
\* returns 12.
UpdateCorrectness ==
    /\ lc_last.op = "update" =>
           /\ lc_last.ret > lc_last.before
           /\ lc_last.ret > lc_last.arg
           /\ lc_last.ret \in {lc_last.before + 1, lc_last.arg + 1}
           /\ lc_time[lc_last.clock] = lc_last.ret
           /\ (lc_last.before = 5 /\ lc_last.arg \in {2, 5}) => lc_last.ret = 6
           /\ (lc_last.before = 2 /\ lc_last.arg = 10) => lc_last.ret = 11
    /\ (lc_last.op = "tick" /\ lc_last.before = 11) => lc_last.ret = 12

\* C11 witness: the clock was at 5 and update(2) returned 6.
UpdateCorrectnessWitness ==
    /\ lc_last.op = "update"
    /\ lc_last.before = 5
    /\ lc_last.arg = 2
    /\ lc_last.ret = 6

\* C12: the stored time of a clock never decreases, every value tick() or update()
\* returns is greater than every value returned or read from that clock before, and
\* get_time() returns the time and leaves it unchanged.
ClockMonotonicity ==
    /\ [][\A c \in Clocks : lc_time'[c] >= lc_time[c]]_vars
    /\ [](lc_last.op \in {"tick", "update"} => lc_last.ret > lc_last.seen)
    /\ [](lc_last.op = "get_time" =>
              /\ lc_last.ret = lc_last.before
              /\ lc_time[lc_last.clock] = lc_last.before)

\* C12 witness: an update() with a received value below the time follows a read.
ClockMonotonicityWitness ==
    /\ lc_last.op = "update"
    /\ lc_last.arg < lc_last.before
    /\ lc_last.seen = lc_last.before
    /\ lc_calls = MaxCalls

\* C13: along the chain p1 -> p2 -> p1 the send timestamps grow: ts1 < ts2 < ts3.
CausalityChain ==
    /\ chain.pc \in {"sent2", "recv1", "done"} => chain.ts1 < chain.ts2
    /\ chain.pc = "done" => chain.ts2 < chain.ts3

\* C13 witness: the chain ended, and clock1 was ahead of clock2 when it started.
CausalityChainWitness ==
    /\ chain.pc = "done"
    /\ chain.ts1 > 3
    /\ chain.ts2 = chain.ts1 + 2
    /\ chain.ts3 = chain.ts2 + 2

-----------------------------------------------------------------------------
(* The priority relation on request pairs (timestamp, client_id): TestMutexLogic *)

\* The request pairs that are compared.
Pairs == (0..MaxTs) \X Peers

\* Three pairs are compared with each other, by the comparison RequestAccess makes
\* in state WANTED (code) and by TestMutexLogic._has_priority (test): each result is
\* the set of <<i, j>> for which pair i has priority over pair j.
Compare(a, b, c) ==
    /\ cmp.pairs = <<>>
    /\ cmp' = LET P == <<a, b, c>>
              IN  [pairs |-> P,
                   code |-> {ij \in (1..3) \X (1..3) :
                                should_defer("WANTED", P[ij[1]][1], P[ij[1]][2],
                                             P[ij[2]][1], P[ij[2]][2])},
                   test |-> {ij \in (1..3) \X (1..3) :
                                has_priority(P[ij[1]][1], P[ij[1]][2],
                                             P[ij[2]][1], P[ij[2]][2])}]
    /\ UNCHANGED <<lc_time, lc_seen, lc_last, lc_calls, chain, protoVars, workload,
                   tickVars, lockVars>>

CompareNext == \E a, b, c \in Pairs : Compare(a, b, c)

\* Any three request pairs are compared.
CompareSpec == InitFree /\ [][CompareNext]_vars

\* rel, a set of <<i, j>>, is a strict total order of the compared pairs P.
StrictTotalOrder(rel, P) ==
    /\ \A i, j \in 1..3 : P[i] = P[j] => <<i, j>> \notin rel
    /\ \A i, j \in 1..3 : P[i] # P[j] => ((<<i, j>> \in rel) # (<<j, i>> \in rel))
    /\ \A i, j, k \in 1..3 : (<<i, j>> \in rel /\ <<j, k>> \in rel) => <<i, k>> \in rel

\* C14: the relation the handler and the test use, t1 < t2 or (t1 = t2 and
\* id1 < id2), is false on equal pairs, holds in exactly one direction between
\* distinct pairs, and is transitive.
PriorityStrictTotalOrder ==
    cmp.pairs # <<>> =>
        /\ StrictTotalOrder(cmp.code, cmp.pairs)
        /\ StrictTotalOrder(cmp.test, cmp.pairs)
        /\ \A i, j \in 1..3 :
               <<i, j>> \in cmp.code <=>
                   \/ cmp.pairs[i][1] < cmp.pairs[j][1]
                   \/ cmp.pairs[i][1] = cmp.pairs[j][1] /\ cmp.pairs[i][2] < cmp.pairs[j][2]

\* C14 witness: three pairs with one timestamp and ids 1, 2, 3 were compared: the ids
\* alone decide.
PriorityStrictTotalOrderWitness ==
    /\ cmp.pairs # <<>>
    /\ cmp.pairs[1][1] = cmp.pairs[2][1]
    /\ cmp.pairs[2][1] = cmp.pairs[3][1]
    /\ cmp.code = {<<1, 2>>, <<2, 3>>, <<1, 3>>}
    /\ cmp.test = cmp.code

-----------------------------------------------------------------------------
(* The locks of one peer: which thread takes which lock, and where it blocks *)

\* A step of a thread is <<"acq", l>> or <<"rel", l>> for a lock l, <<"block", w>>
\* for a blocking call or wait w, or <<"spawn", "send_request">>.

\* with lock l: body
Locked(l, body) == <<<<"acq", l>>>> \o body \o <<<<"rel", l>>>>

\* clock.tick(), clock.update(r), clock.get_time(): with self._lock
ClockCall == Locked("clock", <<>>)

\* PrintingClient.log: timestamp = self.clock.get_time()
Log == ClockCall

Block(w) == <<<<"block", w>>>>

\* body, times times
RECURSIVE Repeat(_, _)
Repeat(body, times) == IF times = 0 THEN <<>> ELSE body \o Repeat(body, times - 1)

\* A faulty variant of DeferredWait: the handler waits inside deferred_lock.
DeferredWaitLocked(w) == Locked("deferred", Block(w))

\* with deferred_lock: deferred_replies.append(...); then reply_event.wait()
DeferredWait(w) == Locked("deferred", <<>>) \o Block(w)

\* RequestAccess: update, log, the decision under state_lock (a deferral is logged
\* inside it), then the deferred or the immediate reply.
RequestAccessProgram(defer) ==
    ClockCall \o Log \o Locked("state", IF defer THEN Log ELSE <<>>)
        \o (IF defer THEN DeferredWait("signal") \o Log \o ClockCall ELSE Log)

\* ReleaseAccess: update, log
ReleaseAccessProgram == ClockCall \o Log

\* send_request: the call, then update and the decrement, or log and the decrement
SendRequestProgram(ok) ==
    Block("RequestAccess") \o (IF ok THEN ClockCall ELSE Log) \o Locked("reply", <<>>)

\* request_critical_section
AcquireProgram ==
    Locked("state", ClockCall) \o Log \o Locked("reply", <<>>)
        \o <<<<"spawn", "send_request">>>> \o Log \o Block("replies")
        \o Locked("state", <<>>) \o Log

\* print_document
PrintProgram(ok) ==
    ClockCall \o Log \o Block("SendToPrinter") \o (IF ok THEN ClockCall \o Log ELSE Log)

\* A faulty variant of ReleaseProgram: the state is reset inside deferred_lock.
ReleaseProgramNested(drained, ok) ==
    ClockCall \o Log
        \o Locked("deferred", Locked("state", <<>>) \o Repeat(Log, drained))
        \o Repeat(Block("ReleaseAccess") \o (IF ok THEN <<>> ELSE Log), 2)

\* release_critical_section, with drained entries in the queue, and the two
\* ReleaseAccess calls answered (ok) or failed and logged
ReleaseProgram(drained, ok) ==
    Locked("state", <<>>) \o ClockCall \o Log
        \o Locked("deferred", Repeat(Log, drained))
        \o Repeat(Block("ReleaseAccess") \o (IF ok THEN <<>> ELSE Log), 2)

\* request_to_print
AppProgram(print_ok, drained, release_ok) ==
    AcquireProgram \o PrintProgram(print_ok) \o ReleaseProgram(drained, release_ok)

\* What a thread may run.
Programs(t) ==
    IF t = "app"
    THEN {AppProgram(a, k, b) : a \in BOOLEAN, k \in 0..MaxDrained, b \in BOOLEAN}
    ELSE IF t = "request" THEN {RequestAccessProgram(d) : d \in BOOLEAN}
    ELSE IF t = "release" THEN {ReleaseAccessProgram}
    ELSE {SendRequestProgram(ok) : ok \in BOOLEAN}

Started(t) == lk_prog[t] # <<>>

Finished(t) == Started(t) /\ lk_pc[t] = Len(lk_prog[t])

\* The next step of a running thread.
NextOp(t) == lk_prog[t][lk_pc[t] + 1]

Running(t) == Started(t) /\ ~Finished(t)

HeldBy(t) == {l \in Locks : lk_owner[l] = t}

\* The application calls request_to_print, or gRPC dispatches a handler.
LockStart(t, prog) ==
    /\ t \in {"app", "request", "release"}
    /\ ~Started(t)
    /\ prog \in Programs(t)
    /\ lk_prog' = [lk_prog EXCEPT ![t] = prog]
    /\ UNCHANGED <<lk_pc, lk_owner, lk_last, protoVars, workload, tickVars, unitVars>>

\* threading.Thread(target=send_request).start() for each peer
LockSpawn(p1, p2) ==
    /\ Running("app")
    /\ NextOp("app")[1] = "spawn"
    /\ p1 \in Programs("send1")
    /\ p2 \in Programs("send2")
    /\ lk_prog' = [lk_prog EXCEPT !["send1"] = p1, !["send2"] = p2]
    /\ lk_pc' = [lk_pc EXCEPT !["app"] = @ + 1]
    /\ UNCHANGED <<lk_owner, lk_last, protoVars, workload, tickVars, unitVars>>

\* lock.acquire(): waits until the lock is free
LockAcquire(t) ==
    /\ Running(t)
    /\ NextOp(t)[1] = "acq"
    /\ lk_owner[NextOp(t)[2]] = "none"
    /\ lk_owner' = [lk_owner EXCEPT ![NextOp(t)[2]] = t]
    /\ lk_last' = [thread |-> t, lock |-> NextOp(t)[2], held |-> HeldBy(t)]
    /\ lk_pc' = [lk_pc EXCEPT ![t] = @ + 1]
    /\ UNCHANGED <<lk_prog, protoVars, workload, tickVars, unitVars>>

\* lock.release()
LockRelease(t) ==
    /\ Running(t)
    /\ NextOp(t)[1] = "rel"
    /\ lk_owner' = [lk_owner EXCEPT ![NextOp(t)[2]] = "none"]
    /\ lk_pc' = [lk_pc EXCEPT ![t] = @ + 1]
    /\ UNCHANGED <<lk_prog, lk_last, protoVars, workload, tickVars, unitVars>>

\* The blocking call or wait of t returns; reply_event.wait() of the application
\* returns once both send_request threads have counted their reply.
LockUnblock(t) ==
    /\ Running(t)
    /\ NextOp(t)[1] = "block"
    /\ NextOp(t)[2] = "replies" => (Finished("send1") /\ Finished("send2"))
    /\ lk_pc' = [lk_pc EXCEPT ![t] = @ + 1]
    /\ UNCHANGED <<lk_prog, lk_owner, lk_last, protoVars, workload, tickVars, unitVars>>

LockNext ==
    \/ \E t \in LockThreads : \E prog \in Programs(t) : LockStart(t, prog)
    \/ \E p1 \in Programs("send1") : \E p2 \in Programs("send2") : LockSpawn(p1, p2)
    \/ \E t \in LockThreads : LockAcquire(t)
    \/ \E t \in LockThreads : LockRelease(t)
    \/ \E t \in LockThreads : LockUnblock(t)

\* The threads of one peer run request_to_print once, one RequestAccess and one
\* ReleaseAccess handler, on any of their paths.
LockSpec == InitFree /\ [][LockNext]_vars

\* t is blocked in, or about to enter, a blocking call or wait.
Blocked(t) == Running(t) /\ NextOp(t)[1] = "block"

\* C21 as claimed: the clock lock is never acquired while the state lock or the
\* deferred-queue lock is held, and the state lock never while the deferred-queue
\* lock is held.
LockOrderClockFirst ==
    /\ lk_last.lock = "clock" => lk_last.held \cap {"state", "deferred"} = {}
    /\ lk_last.lock = "state" => "deferred" \notin lk_last.held

\* C21 amended: the clock lock is the innermost lock. A lock is acquired while
\* another one is held only when it is the clock lock and the lock held is the state
\* lock alone or the deferred-queue lock alone; the state, deferred-queue and reply
\* locks are acquired with no lock held.
LockOrderClockInnermost ==
    lk_last.held # {} =>
        /\ lk_last.lock = "clock"
        /\ lk_last.held \in {{"state"}, {"deferred"}}

\* C21 witness: release() took the clock lock for its log inside deferred_lock.
LockOrderClockInnermostWitness ==
    /\ lk_last.thread = "app"
    /\ lk_last.lock = "clock"
    /\ lk_last.held = {"deferred"}
    /\ lk_owner["clock"] = "app"

\* C22: a thread that is blocked in an outbound RPC, in the deferred handler's signal
\* wait or in acquire's wait for the replies holds no lock.
NoLockWhileBlocked ==
    \A t \in LockThreads : Blocked(t) => HeldBy(t) = {}

\* C22 witness: the handler waits for its signal while release() holds the
\* deferred-queue lock and the clock lock.
NoLockWhileBlockedWitness ==
    /\ Blocked("request")
    /\ NextOp("request")[2] = "signal"
    /\ HeldBy("app") = {"deferred", "clock"}

-----------------------------------------------------------------------------
(* Mutual exclusion and reply accounting *)

\* p is between the return of request_critical_section and the entry of
\* release_critical_section.
InCS(p) == pc[p] \in {"held", "printing", "printed"}

\* C1: in runs without RPC failures, at most one peer is in state HELD, and at most
\* one peer is between acquire's return and release's entry.
MutualExclusion ==
    \A p, q \in Peers :
        p # q => /\ ~(state[p] = "HELD" /\ state[q] = "HELD")
                 /\ ~(InCS(p) /\ InCS(q))

\* C1 witness: a peer holds the resource after another one used it, while a third
\* party still wants it.
MutualExclusionWitness ==
    \E p, q \in Peers :
        /\ p # q
        /\ state[p] = "HELD"
        /\ state[q] = "WANTED"
        /\ pc[q] = "wait"
        /\ Len(printed) >= 1

\* The outbound RequestAccess calls of p that have not ended yet.
LiveCalls(p) == {r \in rpcs : r.from = p /\ r.live}

\* C3: when every outbound RequestAccess call of the round has ended, with an
\* AccessResponse or with a failure, the waiting acquire can return (the reply event
\* is set and the counter is zero), and a peer that returned from acquire is HELD.
AcquireReturnsWhenCallsEnd ==
    \A p \in Peers :
        /\ (pc[p] = "wait" /\ LiveCalls(p) = {})
               => (reply_event[p] /\ pending_replies[p] = 0 /\ ENABLED AcquireEnter(p))
        /\ pc[p] = "held" => state[p] = "HELD"

\* C3 witness: an acquire whose calls all ended, one of them by a failure, is about
\* to return.
AcquireReturnsWhenCallsEndWitness ==
    \E p \in Peers :
        /\ pc[p] = "wait"
        /\ LiveCalls(p) = {}
        /\ \E q \in Others(p) : failures[p][q] = 1

\* C4 as claimed: a peer is HELD only when it has received exactly one AccessResponse
\* from every other peer in the current round.
ReplyAccountingResponsesOnly ==
    \A p \in Peers :
        state[p] = "HELD" => \A q \in Others(p) : responses[p][q] = 1

\* C4 amended: a peer is HELD only when each outbound RequestAccess call of the
\* current round has ended exactly once, with an AccessResponse or with a failure
\* that was counted as a reply.
ReplyAccounting ==
    \A p \in Peers :
        state[p] = "HELD" =>
            /\ LiveCalls(p) = {}
            /\ \A q \in Others(p) : responses[p][q] + failures[p][q] = 1

\* C4 witness: a peer is HELD in a round with a response from one peer and a failed
\* call to another.
ReplyAccountingWitness ==
    \E p \in Peers :
        /\ state[p] = "HELD"
        /\ \E q \in Others(p) : responses[p][q] = 1
        /\ \E q \in Others(p) : failures[p][q] = 1

-----------------------------------------------------------------------------
(* The printer call and the release under failures *)

\* C8: whenever the SendToPrinter call of p is in flight, p is HELD.
PrinterCallInsideCS ==
    \A p \in Peers :
        (pc[p] = "printing" \/ job[p].st # "none") => state[p] = "HELD"

\* C8 witness: a job is in flight at the printer while another peer waits.
PrinterCallInsideCSWitness ==
    \E p, q \in Peers :
        /\ job[p].st = "answered"
        /\ pc[q] = "wait"

\* p is inside release_critical_section.
InRelease(p) == pc[p] \in {"rel_tick", "rel_drain", "notify"}

\* A step of p's application thread inside release_critical_section.
ReleaseStep(p) ==
    \/ ReleaseTick(p)
    \/ ReleaseDrain(p)
    \/ \E q \in Others(p) : ReleaseAccess(p, q)

\* C9: errors of SendToPrinter and ReleaseAccess are only logged: after print_document
\* the peer can always go on to release, inside release_critical_section it is
\* RELEASED and can always take its next step, the drain drops no event unfired, and
\* when release returns ReleaseAccess has been attempted on every other peer.
FailuresStillRelease ==
    \A p \in Peers :
        /\ pc[p] = "printed" => ENABLED ReleaseState(p)
        /\ InRelease(p) => (state[p] = "RELEASED" /\ ENABLED ReleaseStep(p))
        /\ (pc[p] = "idle" /\ request_number[p] > 0)
               => (state[p] = "RELEASED" /\ attempted[p] = Others(p))
        /\ \A r \in rpcs :
               (r.to = p /\ r.st = "waiting" /\ r.sig = 0)
                   => Entries(deferred_replies[p], r) = 1

\* C9 witness: release returned after a failed SendToPrinter and a failed
\* ReleaseAccess.
FailuresStillReleaseWitness ==
    \E p \in Peers :
        /\ pc[p] = "idle"
        /\ errs[p] = {"print", "release"}

-----------------------------------------------------------------------------
(* Order of entry, liveness and the drain of the deferred replies *)

\* The request pair of i comes before the request pair of j.
Prior(i, j) == has_priority(my_request_timestamp[i], i, my_request_timestamp[j], j)

\* C5: while two peers are both WANTED, the one whose pair (timestamp, id) is larger
\* does not become HELD; and when 1 and 2 requested while 3 held the resource and all
\* three printed, the printer got the jobs in the order 3, 1, 2 if the pair of 1 is
\* the smaller one.
PriorityOrder ==
    /\ [][\A i, j \in Peers :
             (i # j /\ state[i] = "WANTED" /\ state[j] = "WANTED" /\ Prior(i, j))
                 => state'[j] # "HELD"]_vars
    /\ [](( /\ workload = "scenario2"
            /\ Len(printed) = 3
            /\ Prior(1, 2) ) => printed = <<3, 1, 2>>)

\* C5 witness: in scenario 2 the timestamps of 1 and 2 collided and the printer got
\* the jobs of 3, 1 and 2 in this order.
PriorityOrderWitness ==
    /\ workload = "scenario2"
    /\ my_request_timestamp[1] = my_request_timestamp[2]
    /\ printed = <<3, 1, 2>>

\* Every step but the application's decision to print again.
Progress ==
    \/ \E p \in Peers : AcquireArm(p)
    \/ \E p \in Peers : AcquireSend(p)
    \/ \E p \in Peers : AcquireEnter(p)
    \/ \E r \in rpcs : RequestAccessUpdate(r)
    \/ \E r \in rpcs : RequestAccessDecide(r)
    \/ \E r \in rpcs : RequestAccessEnqueue(r)
    \/ \E r \in rpcs : RequestAccessWake(r)
    \/ \E r \in rpcs : SendRequestUpdate(r)
    \/ \E r \in rpcs : SendRequestCount(r)
    \/ \E p \in Peers : PrintSend(p)
    \/ \E p \in Peers : SendToPrinter(p)
    \/ \E p \in Peers : PrintReturn(p)
    \/ \E p \in Peers : ReleaseState(p)
    \/ \E p \in Peers : ReleaseTick(p)
    \/ \E p \in Peers : ReleaseDrain(p)
    \/ \E p \in Peers : \E q \in Others(p) : ReleaseAccess(p, q)

\* Runs of the "free" workload without RPC failures in which every thread that can
\* take a step eventually does, and every message is eventually delivered.
FairReliable == InitFree /\ [][NextReliable]_vars /\ WF_vars(Progress)

\* C2: every request_critical_section call eventually returns with the peer HELD.
AcquireEventuallyReturns ==
    \A p \in Peers : (pc[p] = "wait") ~> (state[p] = "HELD")

\* C6: once release_critical_section has returned (and before the next acquire), the
\* deferred queue is empty and every handler that enqueued its event has had it fired
\* exactly once.
DeferredDrainage ==
    \A p \in Peers :
        pc[p] = "idle" =>
            /\ deferred_replies[p] = <<>>
            /\ \A r \in rpcs : (r.to = p /\ r.st = "waiting") => r.sig = 1

\* The handlers of p that decided to defer in an earlier round of p and have not
\* returned their AccessResponse yet.
OwedFromEarlierRound(p) ==
    {r \in rpcs : r.to = p /\ r.st \in {"defer", "waiting"} /\ r.dn < request_number[p]}

\* C7: when a peer broadcasts the AccessRequest of an acquire, every reply it
\* deferred in an earlier round has been returned.
DrainageBeforeNextRequest ==
    [][\A p \in Peers :
          (pc[p] = "send" /\ pc'[p] = "wait") => OwedFromEarlierRound(p) = {}]_vars

\* C15: with the clients 1 and 2 of scenario 1, once the only request_to_print of
\* peer 1 has returned, the printer has received exactly one job, from client 1,
\* peer 1 is RELEASED and its clock reads at least 4.
SoloRequest ==
    (workload = "scenario1" /\ request_number[1] = 1 /\ pc[1] = "idle") =>
        /\ printed = <<1>>
        /\ state[1] = "RELEASED"
        /\ clock[1] >= 4

\* C15 witness: scenario 1 ran to its end; peer 2 never requested and has answered.
SoloRequestWitness ==
    /\ workload = "scenario1"
    /\ request_number[1] = 1
    /\ pc[1] = "idle"
    /\ request_number[2] = 0
    /\ rpcs = {}
    /\ printed = <<1>>

-----------------------------------------------------------------------------
(* The handlers' decisions and the accounting of failed calls *)

\* The handler of request r is deferring in the set of calls R.
DeferredIn(R, r) ==
    \E x \in R : x.from = r.from /\ x.to = r.to /\ x.n = r.n /\ x.st = "defer"

\* The handler of request r has returned its AccessResponse in the set of calls R
\* (to a caller that gave up, the response is dropped).
RepliedIn(R, r) ==
    IF r.live
    THEN [r EXCEPT !.st = "replied"] \in R
    ELSE ~\E x \in R : x.from = r.from /\ x.to = r.to /\ x.n = r.n

\* C16: a handler that examines (req_ts, req_id) under the state lock defers iff its
\* peer is HELD, or WANTED with (my_request_timestamp, my_id) before (req_ts, req_id);
\* otherwise (RELEASED, or WANTED with a pair that is not before) it replies at once.
DeferDecision ==
    [][\A r \in rpcs :
          (r.st = "recv" /\ r \notin rpcs' /\ nfail' = nfail) =>
              LET me == r.to
                  prior == has_priority(my_request_timestamp[me], me, r.ts, r.from)
                  expected == state[me] = "HELD" \/ (state[me] = "WANTED" /\ prior)
              IN  /\ DeferredIn(rpcs', r) <=> expected
                  /\ RepliedIn(rpcs', r) <=> ~expected]_vars

\* C16 witness: two peers requested with equal timestamps; the one with the smaller
\* id has deferred, the other one has replied at once while WANTED.
DeferDecisionWitness ==
    \E r, x \in rpcs :
        /\ r.st = "defer"
        /\ state[r.to] = "WANTED"
        /\ my_request_timestamp[r.to] = r.ts
        /\ x.from = r.to
        /\ x.to = r.from
        /\ x.st = "replied"
        /\ state[x.to] = "WANTED"

\* C17: a RequestAccess call that ends in a timeout or transport error decrements
\* pending_replies exactly once: the counter of a peer that has sent its requests is
\* the number of its calls that have not ended; the failure takes one off, ends the
\* call (nothing is counted for it again, no response either) and, when the counter
\* reaches 0, sets the reply event.
FailureCountedOnce ==
    /\ [](\A p \in Peers :
              pc[p] # "send" => pending_replies[p] = Cardinality(LiveCalls(p)))
    /\ [][\A p \in Peers : \A q \in Others(p) :
              failures'[p][q] > failures[p][q] =>
                  /\ failures'[p][q] = 1
                  /\ responses'[p][q] = 0
                  /\ pending_replies'[p] = pending_replies[p] - 1
                  /\ pending_replies'[p] >= 0
                  /\ (pending_replies'[p] = 0 => reply_event'[p])
                  /\ ~\E r \in rpcs' : r.from = p /\ r.to = q /\ r.live]_vars

\* C17 witness: both calls of a round failed, and the second failure has woken the
\* waiting acquire.
FailureCountedOnceWitness ==
    \E p \in Peers :
        /\ pc[p] = "wait"
        /\ reply_event[p]
        /\ pending_replies[p] = 0
        /\ \A q \in Others(p) : failures[p][q] = 1

\* C18: with timeouts counted as replies two peers can be HELD at the same time, and
\* only so: whenever two peers are both HELD, the RequestAccess call of one of them
\* to the other ended by its deadline or a transport error in the current round.
DoubleHeldOnlyAfterTimeout ==
    \A i, j \in Peers :
        (i # j /\ state[i] = "HELD" /\ state[j] = "HELD") =>
            (failures[i][j] = 1 \/ failures[j][i] = 1)

\* C18 witness: i and j are both HELD; j's call to i hit its deadline while i, alive
\* and HELD or WANTED with priority, had deferred the reply, which it still owes.
DoubleHeldOnlyAfterTimeoutWitness ==
    \E i, j \in Peers :
        /\ i # j
        /\ state[i] = "HELD"
        /\ state[j] = "HELD"
        /\ failures[j][i] = 1
        /\ \E r \in rpcs :
               /\ r.from = j
               /\ r.to = i
               /\ r.n = request_number[j]
               /\ r.st = "waiting"
               /\ r.sig = 0
               /\ ~r.live

\* The handler of i has decided to defer the current request of j and its reply is
\* neither returned nor released by a fired event.
Deferring(i, j) ==
    \E r \in rpcs :
        /\ r.to = i
        /\ r.from = j
        /\ r.n = request_number[j]
        /\ r.st = "defer" \/ (r.st = "waiting" /\ r.sig = 0)

\* C19: in runs without timeouts no two peers defer each other's current request at
\* the same time.
NoCyclicDeferral ==
    \A i, j \in Peers : i # j => ~(Deferring(i, j) /\ Deferring(j, i))

\* C20: handling the AccessRelease of p changes nothing of the receiver q but its
\* clock, which becomes max(time, rel.lamport_timestamp) + 1 (or stays, when the call
\* failed before q handled it): state, my_request_timestamp, request_number,
\* pending_replies, the reply event and the deferred queue of q are unchanged.
OnReleaseFrame ==
    [][\A p, q \in Peers :
          (pc[p] = "notify" /\ q \in attempted'[p] /\ q \notin attempted[p]) =>
              LET new_time == IF clock[q] >= release_ts[p]
                              THEN clock[q] + 1
                              ELSE release_ts[p] + 1
              IN  /\ state'[q] = state[q]
                  /\ my_request_timestamp'[q] = my_request_timestamp[q]
                  /\ request_number'[q] = request_number[q]
                  /\ pending_replies'[q] = pending_replies[q]
                  /\ reply_event'[q] = reply_event[q]
                  /\ deferred_replies'[q] = deferred_replies[q]
                  /\ clock'[q] \in {clock[q], new_time}
                  /\ nfail' = nfail => clock'[q] = new_time]_vars

\* C20 witness: q has handled the release of p while it was WANTED and waiting for
\* replies, with its clock ahead of the release's timestamp.
OnReleaseFrameWitness ==
    \E p, q \in Peers :
        /\ pc[p] = "notify"
        /\ q \in attempted[p]
        /\ state[q] = "WANTED"
        /\ pc[q] = "wait"
        /\ pending_replies[q] > 0
        /\ clock[q] > release_ts[p] + 1

-----------------------------------------------------------------------------
(* The drain, the shape of the state machine, timestamps and counters *)

\* C23: release() fires the signals of its queue in the order in which the handlers
\* appended them: of two events set by one drain, the one appended first is set
\* first.
FifoDrain ==
    [][\A p \in Peers :
          (pc[p] = "rel_drain" /\ pc'[p] # "rel_drain") =>
              \A r1, r2 \in rpcs' \ rpcs :
                  (r1.to = p /\ r2.to = p /\ r1.pos < r2.pos) => r1.fo < r2.fo]_vars

\* C23 witness: a drain has set two events; the request of peer 2 was appended, and
\* set, before the request of peer 1.
FifoDrainWitness ==
    \E r1, r2 \in rpcs :
        /\ r1.to = r2.to
        /\ r1.from = 2
        /\ r2.from = 1
        /\ r1.st = "waiting"
        /\ r2.st = "waiting"
        /\ r1.sig = 1
        /\ r2.sig = 1
        /\ r1.pos = 1
        /\ r2.pos = 2
        /\ r1.fo = 1
        /\ r2.fo = 2

\* C24: every peer starts RELEASED; its state changes only RELEASED -> WANTED when
\* acquire begins, WANTED -> HELD when acquire returns with the reply counter at
\* zero, and HELD -> RELEASED when release begins; no step of a handler or of a
\* send_request thread changes it; my_request_timestamp and request_number change
\* only in the RELEASED -> WANTED step.
StateMachineShape ==
    /\ \A p \in Peers : request_number[p] = 0 => state[p] = "RELEASED"
    /\ [][\A p \in Peers :
              /\ state'[p] # state[p] =>
                     \/ /\ state[p] = "RELEASED" /\ state'[p] = "WANTED"
                        /\ pc[p] = "idle" /\ pc'[p] = "arm"
                     \/ /\ state[p] = "WANTED" /\ state'[p] = "HELD"
                        /\ pc[p] = "wait" /\ pc'[p] = "held"
                        /\ pending_replies[p] = 0
                     \/ /\ state[p] = "HELD" /\ state'[p] = "RELEASED"
                        /\ pc[p] = "printed" /\ pc'[p] = "rel_tick"
              /\ (my_request_timestamp'[p] # my_request_timestamp[p]
                      \/ request_number'[p] # request_number[p]) =>
                     (state[p] = "RELEASED" /\ state'[p] = "WANTED")
              /\ pc'[p] = pc[p] =>
                     /\ state'[p] = state[p]
                     /\ my_request_timestamp'[p] = my_request_timestamp[p]
                     /\ request_number'[p] = request_number[p]]_vars

\* C24 witness: a peer is back to RELEASED after a full cycle in which its print
\* failed, and has handled the request of another peer since.
StateMachineShapeWitness ==
    \E p \in Peers :
        /\ state[p] = "RELEASED"
        /\ pc[p] = "idle"
        /\ request_number[p] = 1
        /\ "print" \in errs[p]
        /\ \E r \in rpcs : r.to = p /\ r.st = "replied" /\ r.ts > my_request_timestamp[p]

\* The record of call r in the set of calls R, in state st.
SameCall(R, r, st) ==
    {x \in R : x.from = r.from /\ x.to = r.to /\ x.n = r.n /\ x.st = st}

\* C25: the handler's first step is clock.update(req.lamport_timestamp); an immediate
\* AccessResponse carries the value that update returned, a deferred one carries a
\* tick() taken after its signal was fired, and every AccessResponse carries a
\* timestamp greater than the one of the AccessRequest it answers.
ReplyTimestamps ==
    /\ [](\A r \in rpcs : r.st = "replied" => r.val > r.ts)
    /\ [][\A r \in rpcs : \A x \in SameCall(rpcs', r, "recv") :
              r.st = "sent" =>
                  /\ x.val = IF clock[r.to] >= r.ts THEN clock[r.to] + 1 ELSE r.ts + 1
                  /\ clock'[r.to] = x.val]_vars
    /\ [][\A r \in rpcs : \A x \in SameCall(rpcs', r, "replied") :
              /\ r.st = "recv" => (x.val = r.val /\ clock'[r.to] = clock[r.to])
              /\ r.st = "waiting" =>
                     /\ r.sig > 0
                     /\ x.val = clock[r.to] + 1
                     /\ clock'[r.to] = x.val
              /\ r.st \in {"recv", "waiting", "replied"}]_vars

\* C25 witness: a deferred AccessResponse is on its way with a timestamp that is
\* later than the value the handler's update had returned.
ReplyTimestampsWitness ==
    \E r \in rpcs :
        /\ r.st = "replied"
        /\ r.sig = 1
        /\ r.fo = 1
        /\ r.val > r.ts + 2

\* C26: acquire blocks exactly until the reply counter is zero: a peer that waits in
\* request_critical_section with the counter at zero, as a peer without peers does
\* from the start, can return and become HELD.
AcquireReturnsAtZero ==
    \A p \in Peers :
        (pc[p] = "wait" /\ pending_replies[p] = 0) => ENABLED AcquireEnter(p)

\* C27: while a peer is RELEASED and not inside release(), none of its RequestAccess
\* handlers has decided to defer and still owes its reply with no signal fired.
NoOrphanedHandler ==
    \A p \in Peers :
        (state[p] = "RELEASED" /\ ~InRelease(p)) =>
            ~\E r \in rpcs :
                /\ r.to = p
                /\ r.st = "defer" \/ (r.st = "waiting" /\ r.sig = 0)

\* C28: the timestamp acquire() takes is greater than the timestamp of every
\* AccessRequest on which a handler of the peer has made its decision before, and
\* so greater than the timestamp of every request it answered at once.
RequestTimestampDominates ==
    [][\A p \in Peers :
          (pc[p] = "idle" /\ pc'[p] = "arm") =>
              /\ my_request_timestamp'[p] > decided[p]
              /\ \A r \in rpcs :
                     (r.to = p /\ r.st \in {"defer", "waiting", "replied", "got"})
                         => my_request_timestamp'[p] > r.ts]_vars

\* C28 witness: a peer requests after its handler has answered a request of a later
\* round at once.
RequestTimestampDominatesWitness ==
    \E p \in Peers :
        /\ pc[p] = "arm"
        /\ decided[p] > 2
        /\ my_request_timestamp[p] > decided[p]
        /\ \E r \in rpcs : r.to = p /\ r.st = "replied" /\ r.ts = decided[p] /\ r.n = 2

\* C29: 0 <= pending_replies <= N-1 in every state; a round sets the counter to N-1
\* before any of its requests is sent; the counter is the number of calls of the
\* current round that have not ended, every decrement takes one off as one call
\* ends, the reply event is set only with the counter at 0, and no call of an earlier
\* round is alive after a reset.
ReplyCounterBounds ==
    /\ [](\A p \in Peers :
              /\ pending_replies[p] \in 0..Cardinality(Others(p))
              /\ pc[p] = "send" =>
                     /\ pending_replies[p] = Cardinality(Others(p))
                     /\ ~reply_event[p]
                     /\ ~\E r \in rpcs : r.from = p /\ r.n = request_number[p]
              /\ pc[p] # "send" => pending_replies[p] = Cardinality(LiveCalls(p))
              /\ reply_event[p] => pending_replies[p] = 0
              /\ \A r \in LiveCalls(p) : r.n = request_number[p])
    /\ [][\A p \in Peers :
              /\ pending_replies'[p] < pending_replies[p] =>
                     /\ pending_replies'[p] = pending_replies[p] - 1
                     /\ Cardinality(LiveCalls(p)') = Cardinality(LiveCalls(p)) - 1
              /\ (reply_event'[p] /\ ~reply_event[p]) =>
                     (pending_replies[p] = 1 /\ pending_replies'[p] = 0)]_vars

\* C29 witness: in its second round a peer has counted one of its two replies and
\* waits for the other one.
ReplyCounterBoundsWitness ==
    \E p \in Peers :
        /\ pc[p] = "wait"
        /\ request_number[p] = 2
        /\ pending_replies[p] = 1
        /\ ~reply_event[p]
        /\ Cardinality(LiveCalls(p)) = 1

====
